---- MODULE Spec2Model ----
(***************************************************************************)
(* Model of the smart-financial-coach pipeline: analysis.py (loader and    *)
(* aggregation, savings), forecasting.py (goal ETA), insights.py (insight  *)
(* list) and app.py (main, which wires the stages in a straight line).     *)
(*                                                                         *)
(* Money is counted in whole currency units.  A month count produced by    *)
(* round(x, 1) is held as an integer number of tenths of a month.          *)
(* The date column is parsed by the loader and read by no stage, so rows   *)
(* carry only category and amount.                                         *)
(***************************************************************************)
EXTENDS Integers, Sequences, FiniteSets, TLC

\* ---------------------------------------------------------------- bounds
MaxTxns == 2
MaxAmount == 1
MaxIncome == 2
MaxBills == 1
MaxGoal == 1

\* ---------------------------------------------------------------- values
\* Python's None: the value of an unbound local and the "unreachable" result.
None == [none |-> TRUE]

\* The float that round(x, 1) returns, as a number of tenths.
Months(t) == [tenths |-> t]

\* An empty field of the CSV file, and what read_csv makes of it.
Blank == ""
NaN == "NaN"

Labels == {"food", "rent"}
\* Amounts are signed: a refund of 1, and expenses of 1 up to MaxAmount.
Amounts == {0 - 1} \cup 1..MaxAmount
CsvRows == [category : Labels \cup {Blank}, amount : Amounts]
CsvFiles == UNION {[1..n -> CsvRows] : n \in 0..MaxTxns}

\* The profile main runs with.
Incomes == 0..MaxIncome
Bills == 0..MaxBills
Goals == 0..MaxGoal
Balances == 0..MaxGoal

\* Arguments of a direct call: a goal or a balance, and a savings figure or
\* monthly rate (negative, zero, and up to what calc_savings can return).
ArgGoals == 0..(MaxGoal + 1)
ArgRates == (0 - 1)..(MaxIncome + MaxTxns)

\* ---------------------------------------------------------------- analysis.py
\* pd.read_csv: one table row per file row; an empty field is read as NaN.
load_transactions(csv_file) ==
    [i \in DOMAIN csv_file |->
        [category |-> IF csv_file[i].category = Blank THEN NaN
                      ELSE csv_file[i].category,
         amount |-> csv_file[i].amount]]

Tables == {load_transactions(f) : f \in CsvFiles}
TableRows == {load_transactions(<<r>>)[1] : r \in CsvRows}

\* Series.sum(): the sum of a column, 0 for an empty one.
RECURSIVE SumAmounts(_)
SumAmounts(rows) ==
    IF rows = <<>> THEN 0 ELSE rows[1].amount + SumAmounts(Tail(rows))

\* groupby("category")["amount"].sum().to_dict(): one key per category that
\* occurs; groupby leaves out the rows whose key is NaN (dropna=True).
categorize_spending(transactions_) ==
    [c \in {transactions_[i].category : i \in DOMAIN transactions_} \ {NaN} |->
        SumAmounts(SelectSeq(transactions_, LAMBDA r : r.category = c))]

total_spent(transactions_) == SumAmounts(transactions_)

\* calc_savings without the clamp: the raw difference is returned.
calc_savings_unclamped(income_, recurring_bills_, transactions_) ==
    income_ - (total_spent(transactions_) + recurring_bills_)

\* calc_savings returning the size of the difference instead of clamping it.
calc_savings_abs(income_, recurring_bills_, transactions_) ==
    LET savings_ == income_ - (total_spent(transactions_) + recurring_bills_)
    IN  IF savings_ > 0 THEN savings_ ELSE 0 - savings_

\* calc_savings that leaves the recurring bills out of the expenses.
calc_savings_no_bills(income_, recurring_bills_, transactions_) ==
    LET savings_ == income_ - total_spent(transactions_)
    IN  IF savings_ > 0 THEN savings_ ELSE 0

calc_savings(income_, recurring_bills_, transactions_) ==
    LET expenses == total_spent(transactions_) + recurring_bills_
        savings_ == income_ - expenses
    IN  IF savings_ > 0 THEN savings_ ELSE 0

\* ---------------------------------------------------------------- forecasting.py
\* round(n / d, 1) in tenths, for d # 0.  Python rounds the double n / d
\* correctly, ties to even; for |d| < 20 every quotient that lies halfway
\* between two tenths is a multiple of 1/4, which a double holds exactly.
Round1(n, d) ==
    LET num == IF d < 0 THEN 0 - 10 * n ELSE 10 * n
        den == IF d < 0 THEN 0 - d ELSE d
        q == num \div den
        r == num % den
    IN  IF 2 * r < den THEN q
        ELSE IF 2 * r > den THEN q + 1
        ELSE IF q % 2 = 0 THEN q ELSE q + 1

\* The exception that the division raises on a zero divisor.
ZeroDivisionError == [raised |-> "ZeroDivisionError"]

\* months_needed = n / d; round(months_needed, 1)
months_needed(n, d) ==
    IF d = 0 THEN ZeroDivisionError ELSE Months(Round1(n, d))

\* predict_goal_eta with the remaining amount floored at 0.
predict_goal_eta_floored(goal_amount_, current_savings_, monthly_savings_) ==
    IF monthly_savings_ <= 0 THEN None
    ELSE months_needed(IF goal_amount_ > current_savings_
                       THEN goal_amount_ - current_savings_ ELSE 0,
                       monthly_savings_)

\* predict_goal_eta whose guard lets a zero rate through.
predict_goal_eta_strict(goal_amount_, current_savings_, monthly_savings_) ==
    IF monthly_savings_ < 0 THEN None
    ELSE months_needed(goal_amount_ - current_savings_, monthly_savings_)

predict_goal_eta(goal_amount_, current_savings_, monthly_savings_) ==
    IF monthly_savings_ <= 0 THEN None
    ELSE months_needed(goal_amount_ - current_savings_, monthly_savings_)

\* ---------------------------------------------------------------- insights.py
\* f"{x:.2f}": the amount with two decimals, held as a number of cents.
Fmt2(x) == 100 * x

OverspendingLine == [kind |-> "overspending"]
SavedLine(savings_) == [kind |-> "saved", cents |-> Fmt2(savings_)]
UnreachableLine == [kind |-> "unreachable"]
EtaLine(goal_amount_, months_eta_) ==
    [kind |-> "eta", goal |-> goal_amount_, tenths |-> months_eta_.tenths]
TipLine == [kind |-> "tip"]

\* generate_insights choosing the status line by monthly_savings, not savings.
generate_insights_by_rate(goal_amount_, savings_, monthly_savings_, months_eta_) ==
    LET first == IF monthly_savings_ <= 0 THEN OverspendingLine
                 ELSE SavedLine(savings_)
        second == IF months_eta_ = None THEN UnreachableLine
                  ELSE EtaLine(goal_amount_, months_eta_)
    IN  <<first, second, TipLine>>

\* generate_insights that warns only when savings are below 0.
generate_insights_strict(goal_amount_, savings_, monthly_savings_, months_eta_) ==
    LET first == IF savings_ < 0 THEN OverspendingLine ELSE SavedLine(savings_)
        second == IF months_eta_ = None THEN UnreachableLine
                  ELSE EtaLine(goal_amount_, months_eta_)
    IN  <<first, second, TipLine>>

generate_insights(goal_amount_, savings_, monthly_savings_, months_eta_) ==
    LET first == IF savings_ <= 0 THEN OverspendingLine ELSE SavedLine(savings_)
        second == IF months_eta_ = None THEN UnreachableLine
                  ELSE EtaLine(goal_amount_, months_eta_)
    IN  <<first, second, TipLine>>

\* ---------------------------------------------------------------- app.py
VARIABLES
    csv_exists,       \* whether data/transactions.csv can be read
    csv,              \* its rows
    income, recurring_bills, goal_amount, current_savings,   \* the profile
    pc,               \* the statement of main that runs next
    frame,            \* main's locals that are bound so far
    printed,          \* what main has printed
    prev_out,         \* what the previous run of main computed and printed
    fn, args, ret,    \* a direct call of one function: its name, arguments, result
    prev_call         \* the calc_savings call made just before this one

vars == <<csv_exists, csv, income, recurring_bills, goal_amount, current_savings,
          pc, frame, printed, prev_out, fn, args, ret, prev_call>>

inputs == <<csv_exists, csv, income, recurring_bills, goal_amount, current_savings>>
call == <<fn, args, ret, prev_call>>

\* main's frame before any of its locals is bound.
NewFrame == [function |-> "main"]

\* The frame with one more local bound.
Bind(f, name, value) == (name :> value) @@ f

outputs == [category_totals |-> frame.category_totals, savings |-> frame.savings,
            months_eta |-> frame.months_eta, insights |-> frame.insights,
            printed |-> printed]

NoCall == fn = "none" /\ args = None /\ ret = None /\ prev_call = None

\* main after its profile assignments, before load_transactions().
Init ==
    /\ csv_exists \in BOOLEAN
    /\ csv \in (IF csv_exists THEN CsvFiles ELSE {<<>>})
    /\ income \in Incomes
    /\ recurring_bills \in Bills
    /\ goal_amount \in Goals
    /\ current_savings \in Balances
    /\ pc = "load"
    /\ frame = NewFrame
    /\ printed = None
    /\ prev_out = None
    /\ NoCall

\* transactions = load_transactions(); a file that cannot be read raises.
Main_Load ==
    /\ pc = "load"
    /\ IF csv_exists
       THEN /\ pc' = "aggregate"
            /\ frame' = Bind(frame, "transactions", load_transactions(csv))
       ELSE /\ pc' = "error"
            /\ UNCHANGED frame
    /\ UNCHANGED <<inputs, printed, prev_out, call>>

\* The aggregation stage dropping the uncategorised rows from the table in place.
Main_Categorize_inplace ==
    /\ pc = "aggregate"
    /\ pc' = "savings"
    /\ frame' = Bind(Bind(frame, "category_totals",
                          categorize_spending(frame.transactions)),
                     "transactions",
                     SelectSeq(frame.transactions, LAMBDA r : r.category # NaN))
    /\ UNCHANGED <<inputs, printed, prev_out, call>>

\* category_totals = categorize_spending(transactions)
Main_Categorize ==
    /\ pc = "aggregate"
    /\ pc' = "savings"
    /\ frame' = Bind(frame, "category_totals", categorize_spending(frame.transactions))
    /\ UNCHANGED <<inputs, printed, prev_out, call>>

\* savings = calc_savings(income, recurring_bills, transactions)
Main_Savings ==
    /\ pc = "savings"
    /\ pc' = "forecast"
    /\ frame' = Bind(frame, "savings",
                     calc_savings(income, recurring_bills, frame.transactions))
    /\ UNCHANGED <<inputs, printed, prev_out, call>>

\* months_eta = predict_goal_eta(goal_amount, current_savings, savings); an
\* exception raised in the call leaves main.
Main_Forecast ==
    /\ pc = "forecast"
    /\ LET eta == predict_goal_eta(goal_amount, current_savings, frame.savings)
       IN  IF eta = ZeroDivisionError
           THEN pc' = "error" /\ UNCHANGED frame
           ELSE pc' = "insights" /\ frame' = Bind(frame, "months_eta", eta)
    /\ UNCHANGED <<inputs, printed, prev_out, call>>

\* insights = generate_insights(goal_amount, savings, savings, months_eta)
Main_Insights ==
    /\ pc = "insights"
    /\ pc' = "present"
    /\ frame' = Bind(frame, "insights",
                     generate_insights(goal_amount, frame.savings, frame.savings,
                                       frame.months_eta))
    /\ UNCHANGED <<inputs, printed, prev_out, call>>

\* The two printed sections: each category with its amount to two decimals,
\* then the insights; main returns.
Main_Print ==
    /\ pc = "present"
    /\ pc' = "done"
    /\ printed' = [spending |-> [c \in DOMAIN frame.category_totals |->
                                    Fmt2(frame.category_totals[c])],
                   tips |-> frame.insights]
    /\ UNCHANGED <<inputs, frame, prev_out, call>>

\* The program is started again on the same file: main runs afresh.
Rerun ==
    /\ pc = "done"
    /\ pc' = "load"
    /\ prev_out' = outputs
    /\ frame' = NewFrame
    /\ printed' = None
    /\ UNCHANGED <<inputs, call>>

Next ==
    \/ Main_Load
    \/ Main_Categorize
    \/ Main_Savings
    \/ Main_Forecast
    \/ Main_Insights
    \/ Main_Print
    \/ Rerun

Spec == Init /\ [][Next]_vars

\* main is straight-line code: a statement that can run does run, and every
\* step of main moves pc.
FairSpec == Spec /\ WF_pc(Next)

\* ---------------------------------------------------------------- direct calls
\* Each function is also callable on its own, with any arguments.
NoRun ==
    /\ csv_exists = FALSE
    /\ csv = <<>>
    /\ income = 0
    /\ recurring_bills = 0
    /\ goal_amount = 0
    /\ current_savings = 0
    /\ pc = "idle"
    /\ frame = NewFrame
    /\ printed = None
    /\ prev_out = None

run == <<inputs, pc, frame, printed, prev_out>>

FnInit == NoRun /\ NoCall

\* The results predict_goal_eta can hand to generate_insights.
EtaValues == {predict_goal_eta(g, c, m) : g \in ArgGoals, c \in ArgGoals, m \in ArgRates}

Call_categorize_spending ==
    /\ fn = "none"
    /\ \E t \in Tables :
        /\ fn' = "categorize_spending"
        /\ args' = [transactions |-> t]
        /\ ret' = categorize_spending(t)
    /\ UNCHANGED <<run, prev_call>>

Call_total_spent ==
    /\ fn = "none"
    /\ \E t \in Tables :
        /\ fn' = "total_spent"
        /\ args' = [transactions |-> t]
        /\ ret' = total_spent(t)
    /\ UNCHANGED <<run, prev_call>>

Call_calc_savings ==
    /\ fn = "none"
    /\ \E i \in Incomes, b \in Bills, t \in Tables :
        /\ fn' = "calc_savings"
        /\ args' = [income |-> i, recurring_bills |-> b, transactions |-> t]
        /\ ret' = calc_savings(i, b, t)
    /\ UNCHANGED <<run, prev_call>>

\* A second call of calc_savings that differs from the first in one argument:
\* another income, other bills, or the table with one row more or one row less.
Recall_calc_savings ==
    /\ fn = "calc_savings"
    /\ prev_call = None
    /\ \E a \in {[args EXCEPT !.income = i] : i \in Incomes}
             \cup {[args EXCEPT !.recurring_bills = b] : b \in Bills}
             \cup {[args EXCEPT !.transactions = Append(@, r)] :
                      r \in IF Len(args.transactions) < MaxTxns
                            THEN TableRows ELSE {}}
             \cup {[args EXCEPT !.transactions = SubSeq(@, 1, Len(@) - 1)] :
                      x \in IF args.transactions = <<>> THEN {} ELSE {0}} :
        /\ a # args
        /\ prev_call' = [args |-> args, ret |-> ret]
        /\ args' = a
        /\ ret' = calc_savings(a.income, a.recurring_bills, a.transactions)
    /\ UNCHANGED <<run, fn>>

Call_predict_goal_eta ==
    /\ fn = "none"
    /\ \E g \in ArgGoals, c \in ArgGoals, m \in ArgRates :
        /\ fn' = "predict_goal_eta"
        /\ args' = [goal_amount |-> g, current_savings |-> c, monthly_savings |-> m]
        /\ ret' = predict_goal_eta(g, c, m)
    /\ UNCHANGED <<run, prev_call>>

Call_generate_insights ==
    /\ fn = "none"
    /\ \E g \in ArgGoals, s \in ArgRates, m \in ArgRates, e \in EtaValues :
        /\ fn' = "generate_insights"
        /\ args' = [goal_amount |-> g, savings |-> s, monthly_savings |-> m,
                    months_eta |-> e]
        /\ ret' = generate_insights(g, s, m, e)
    /\ UNCHANGED <<run, prev_call>>

\* The call is over; another can be made.
Return ==
    /\ fn # "none"
    /\ fn' = "none"
    /\ args' = None
    /\ ret' = None
    /\ prev_call' = None
    /\ UNCHANGED run

FnNext ==
    \/ Call_categorize_spending
    \/ Call_total_spent
    \/ Call_calc_savings
    \/ Recall_calc_savings
    \/ Call_predict_goal_eta
    \/ Call_generate_insights
    \/ Return

FnSpec == FnInit /\ [][FnNext]_vars

\* ---------------------------------------------------------------- properties
Max(a, b) == IF a > b THEN a ELSE b
Abs(a) == IF a < 0 THEN 0 - a ELSE a

\* The sum of the values of a mapping.
RECURSIVE SumValues(_)
SumValues(m) ==
    IF DOMAIN m = {} THEN 0
    ELSE LET c == CHOOSE k \in DOMAIN m : TRUE
         IN  m[c] + SumValues([k \in DOMAIN m \ {c} |-> m[k]])

\* income - (total_spent + recurring_bills) of a calc_savings call.
RawSavings(a) == a.income - (total_spent(a.transactions) + a.recurring_bills)

\* C1: calc_savings returns max(income - (total_spent + recurring_bills), 0):
\* the raw difference when it is positive, exactly 0 otherwise (break-even
\* included), and so never a negative number.
C1_SavingsClamped ==
    fn = "calc_savings" =>
        /\ ret = Max(RawSavings(args), 0)
        /\ (RawSavings(args) > 0 => ret = RawSavings(args))
        /\ (RawSavings(args) <= 0 => ret = 0)
        /\ ret >= 0

\* A call that breaks even on a table with rows, and returned 0.
C1_Witness ==
    /\ fn = "calc_savings"
    /\ args.transactions # <<>>
    /\ RawSavings(args) = 0
    /\ ret = 0

\* C2: predict_goal_eta(g, c, m) returns the unreachable sentinel for every
\* m <= 0 and raises nothing; for m > 0 it returns the tenth of a month
\* nearest to (g - c) / m, with g - c taken as it is (no floor at 0).
C2_EtaFormula ==
    fn = "predict_goal_eta" =>
        LET g == args.goal_amount
            c == args.current_savings
            m == args.monthly_savings
        IN  /\ ret # ZeroDivisionError
            /\ (m <= 0 => ret = None)
            /\ (m > 0 => /\ ret # None
                         /\ 2 * Abs(10 * (g - c) - ret.tenths * m) <= m)

\* A call with a positive rate and a balance above the goal, whose quotient
\* is not a whole number of tenths.
C2_Witness ==
    /\ fn = "predict_goal_eta"
    /\ args.monthly_savings > 0
    /\ args.goal_amount < args.current_savings
    /\ (10 * (args.goal_amount - args.current_savings)) % args.monthly_savings # 0
    /\ ret # None
    /\ ret.tenths < 0

\* C3: every result of predict_goal_eta is the unreachable sentinel or a
\* non-negative number of months, for every non-negative goal_amount and
\* current_savings, also when current_savings exceeds goal_amount.
C3_EtaNonNegative ==
    (fn = "predict_goal_eta" /\ args.goal_amount >= 0 /\ args.current_savings >= 0) =>
        (ret = None \/ ret.tenths >= 0)

\* C4: for every non-empty transaction table the values of the mapping
\* categorize_spending returns add up to what total_spent returns on the
\* same table: every amount is counted in exactly one category total.
C4_PartitionLaw ==
    (fn = "categorize_spending" /\ args.transactions # <<>>) =>
        SumValues(ret) = total_spent(args.transactions)

\* C5: generate_insights returns exactly 3 entries in a fixed order: the
\* status line (overspending warning if savings <= 0, else the saved amount
\* to two decimals), the goal line (unreachable message if months_eta is the
\* sentinel, else the goal and the ETA), and the static tip.
C5_ThreeInsights ==
    fn = "generate_insights" =>
        /\ Len(ret) = 3
        /\ IF args.savings <= 0
           THEN ret[1].kind = "overspending"
           ELSE ret[1].kind = "saved" /\ ret[1].cents = 100 * args.savings
        /\ IF args.months_eta = None
           THEN ret[2].kind = "unreachable"
           ELSE /\ ret[2].kind = "eta"
                /\ ret[2].goal = args.goal_amount
                /\ ret[2].tenths = args.months_eta.tenths
        /\ ret[3].kind = "tip"

\* A call with positive savings, another monthly rate, and no ETA.
C5_Witness ==
    /\ fn = "generate_insights"
    /\ args.savings > 0
    /\ args.monthly_savings <= 0
    /\ args.months_eta = None
    /\ Len(ret) = 3

\* income - recurring_bills - total_spent of the run in progress.
RunRaw == income - recurring_bills - total_spent(frame.transactions)

\* C6: in the pipeline as main wires it, income - recurring_bills -
\* total_spent <= 0 gives savings 0, an unreachable ETA, the overspending
\* warning and the unreachable-goal message; otherwise the saved-amount line
\* and the goal/ETA line.  A saved-amount line never comes with an
\* unreachable-goal message, nor an overspending warning with an ETA line.
C6_PipelinePairs ==
    pc \in {"present", "done"} =>
        /\ IF RunRaw <= 0
           THEN /\ frame.savings = 0
                /\ frame.months_eta = None
                /\ frame.insights[1].kind = "overspending"
                /\ frame.insights[2].kind = "unreachable"
           ELSE /\ frame.insights[1].kind = "saved"
                /\ frame.insights[2].kind = "eta"
        /\ ~(frame.insights[1].kind = "saved" /\ frame.insights[2].kind = "unreachable")
        /\ ~(frame.insights[1].kind = "overspending" /\ frame.insights[2].kind = "eta")

\* A finished run that broke even exactly.
C6_Witness ==
    /\ pc = "done"
    /\ frame.transactions # <<>>
    /\ RunRaw = 0
    /\ frame.insights[1].kind = "overspending"

\* C7: calc_savings does not decrease when income grows, does not increase
\* when total_spent or recurring_bills grows (the other two held fixed), and
\* its result is always >= 0.
C7_Monotone ==
    fn = "calc_savings" =>
        /\ ret >= 0
        /\ prev_call # None =>
            LET p == prev_call.args
                tp == total_spent(prev_call.args.transactions)
                tq == total_spent(args.transactions)
            IN  /\ (p.recurring_bills = args.recurring_bills /\ tp = tq
                      /\ p.income <= args.income) => prev_call.ret <= ret
                /\ (p.income = args.income /\ p.recurring_bills = args.recurring_bills
                      /\ tp <= tq) => prev_call.ret >= ret
                /\ (p.income = args.income /\ tp = tq
                      /\ p.recurring_bills <= args.recurring_bills) => prev_call.ret >= ret

\* Two calls in a row, the second with a row more, more spent and less saved.
C7_Witness ==
    /\ fn = "calc_savings"
    /\ prev_call # None
    /\ Len(args.transactions) > Len(prev_call.args.transactions)
    /\ total_spent(args.transactions) > total_spent(prev_call.args.transactions)
    /\ ret < prev_call.ret

\* The steps main can take from one statement to the next.
StageOrder ==
    {<<"load", "aggregate">>, <<"load", "error">>, <<"aggregate", "savings">>,
     <<"savings", "forecast">>, <<"forecast", "insights">>,
     <<"insights", "present">>, <<"present", "done">>, <<"done", "load">>}

InStageOrder == <<pc, pc'>> \in StageOrder

C9_EmptyTable ==
    (fn # "none" /\ fn # "predict_goal_eta" /\ fn # "generate_insights"
        /\ args.transactions = <<>>) =>
        /\ fn = "categorize_spending" => DOMAIN ret = {}
        /\ fn = "total_spent" => ret = 0
        /\ fn = "calc_savings" =>
              ret = Max(args.income - args.recurring_bills, 0)

\* calc_savings called on an empty table with bills to pay out of the income.
C9_Witness ==
    /\ fn = "calc_savings"
    /\ args.transactions = <<>>
    /\ args.recurring_bills > 0
    /\ ret > 0

====
